---- MODULE Spec2Model ----
(***************************************************************************)
(* The maelstrom echo node of src/main.rs: the main loop that reads one    *)
(* decoded Message at a time from stdin and EchoNode::next, the two-state  *)
(* protocol state machine that answers init and echo requests on stdout.   *)
(***************************************************************************)
EXTENDS Integers, Sequences, FiniteSets, TLC

(* ---------------------------------------------------------------- bounds *)

\* Largest number of records the input stream holds.
MaxInputs == 4

\* Largest msg_id carried by an incoming message.
MaxMsgId == 1

\* Width in bits of the usize the model gives the message-id counter: the
\* target's pointer width, scaled down so that the largest usize is reachable.
UsizeBits == 3

\* Node identifiers seen on the wire (src, dest, node_id).
NodeIds == {"n1", "n2"}

\* Senders of incoming messages.
Sources == {"c1"}

\* Strings carried by echo / echo_ok.
EchoStrings == {"a", "b"}

\* Values of the node_ids field of init.
NodeIdLists == {<<"n1">>, <<"n1", "n2">>}

(* ------------------------------------------------------------ data model *)

\* Option<T>: None is the empty sequence, Some(x) the one-element sequence.
None == <<>>

Some(x) == <<x>>

\* Option<usize> values an incoming message can carry in msg_id / in_reply_to.
OptionIds == {None} \cup {Some(i) : i \in 1..MaxMsgId}

\* enum Payload, tagged by "type" with snake_case variant names.
Payload ==
    {[type |-> "init", node_id |-> n, node_ids |-> l] : n \in NodeIds, l \in NodeIdLists}
    \cup {[type |-> "init_ok"]}
    \cup {[type |-> "echo", echo |-> e] : e \in EchoStrings}
    \cup {[type |-> "echo_ok", echo |-> e] : e \in EchoStrings}

\* struct Body.  Incoming requests carry no in_reply_to.
Body == {[id |-> i, in_reply_to |-> None, payload |-> p] : i \in OptionIds, p \in Payload}

\* struct Message: the envelope.
Message == {[source |-> s, destination |-> d, body |-> b] : s \in Sources, d \in NodeIds, b \in Body}

(* ------------------------------------------------------- JSON encoding *)

\* JSON values: null, numbers, strings, arrays, and objects as the sequence
\* of their <<key, value>> members in the order they are written.
JNull == [t |-> "null"]

JNum(n) == [t |-> "num", n |-> n]

JStr(x) == [t |-> "str", s |-> x]

JArr(items) == [t |-> "arr", items |-> items]

JObj(members) == [t |-> "obj", members |-> members]

\* Serialize of Option<usize>: None is null, Some(n) is n.
EncodeOption(o) == IF o = None THEN JNull ELSE JNum(o[1])

\* Serialize of Payload, internally tagged: the "type" member, then the
\* variant's fields.
EncodePayload(p) ==
    <<(<<"type", JStr(p.type)>>)>> \o
    (CASE p.type = "init" ->
            <<(<<"node_id", JStr(p.node_id)>>),
              (<<"node_ids", JArr([i \in 1..Len(p.node_ids) |-> JStr(p.node_ids[i])])>>)>>
       [] p.type = "init_ok" -> <<>>
       [] p.type = "echo" -> <<(<<"echo", JStr(p.echo)>>)>>
       [] p.type = "echo_ok" -> <<(<<"echo", JStr(p.echo)>>)>>)

\* Variant of EncodeBody: a None msg_id or in_reply_to is left out.
EncodeBody_SkipNone(b) ==
    JObj((IF b.id = None THEN <<>> ELSE <<(<<"msg_id", EncodeOption(b.id)>>)>>)
         \o (IF b.in_reply_to = None
             THEN <<>>
             ELSE <<(<<"in_reply_to", EncodeOption(b.in_reply_to)>>)>>)
         \o EncodePayload(b.payload))

\* Serialize of Body: msg_id, in_reply_to, then the payload's members
\* flattened into the same object.
EncodeBody(b) ==
    JObj(<<(<<"msg_id", EncodeOption(b.id)>>),
           (<<"in_reply_to", EncodeOption(b.in_reply_to)>>)>>
         \o EncodePayload(b.payload))

\* Serialize of Message: src, dest, body.
EncodeMessage(m) ==
    JObj(<<(<<"src", JStr(m.source)>>),
           (<<"dest", JStr(m.destination)>>),
           (<<"body", EncodeBody(m.body)>>)>>)

\* Placeholder for "no message decoded yet".
NoMessage == [source |-> "", destination |-> "", body |-> [id |-> None, in_reply_to |-> None, payload |-> [type |-> "none"]]]

\* enum EchoNodeState.
Initializing == [tag |-> "Initializing"]

Ready(id, n) == [tag |-> "Ready", self_id |-> id, message_id |-> n]

\* usize::MAX.
UsizeMax == 2^UsizeBits - 1

\* message_id + 1 does not fit a usize.
Overflows(n) == n + 1 > UsizeMax

\* What the build makes of an overflowing +: a panic with overflow checks on
\* (the debug profile), a wrap-around with them off (the release profile).
OverflowOutcomes == {"panic", "wrap"}

\* Variant of NextMessageId: the counter is not advanced.
NextMessageId_Stuck(n) == n

\* Variant of NextMessageId: the counter saturates at usize::MAX.
NextMessageId_Saturating(n) == IF n + 1 > UsizeMax THEN UsizeMax ELSE n + 1

\* message_id + 1 of the echo branch, as a usize.
NextMessageId(n) == (n + 1) % (UsizeMax + 1)

\* The id of the init_ok reply.
InitOkId == 0

\* The counter value a freshly initialised node starts with.
FirstMessageId == 1

\* Variant of InitReply: the reply takes the first counter value as its id.
InitReply_CounterId(m) ==
    [source |-> m.destination,
     destination |-> m.source,
     body |-> [id |-> Some(FirstMessageId), in_reply_to |-> m.body.id, payload |-> [type |-> "init_ok"]]]

\* Variant of InitReply: the reply is sent from the assigned node_id.
InitReply_FromNodeId(m) ==
    [source |-> m.body.payload.node_id,
     destination |-> m.source,
     body |-> [id |-> Some(InitOkId), in_reply_to |-> m.body.id, payload |-> [type |-> "init_ok"]]]

\* Variant of InitReply: source and destination are copied, not swapped.
InitReply_Unswapped(m) ==
    [source |-> m.source,
     destination |-> m.destination,
     body |-> [id |-> Some(InitOkId), in_reply_to |-> m.body.id, payload |-> [type |-> "init_ok"]]]

\* The init_ok reply built in the Initializing branch.
InitReply(m) ==
    [source |-> m.destination,
     destination |-> m.source,
     body |-> [id |-> Some(InitOkId), in_reply_to |-> m.body.id, payload |-> [type |-> "init_ok"]]]

\* Variant of EchoReply: the echoed string is replaced by the empty string.
EchoReply_EmptyEcho(m, message_id) ==
    [source |-> m.destination,
     destination |-> m.source,
     body |-> [id |-> Some(message_id), in_reply_to |-> m.body.id,
               payload |-> [type |-> "echo_ok", echo |-> ""]]]

\* Variant of EchoReply: in_reply_to is left unset.
EchoReply_NoReplyTo(m, message_id) ==
    [source |-> m.destination,
     destination |-> m.source,
     body |-> [id |-> Some(message_id), in_reply_to |-> None,
               payload |-> [type |-> "echo_ok", echo |-> m.body.payload.echo]]]

\* The echo_ok reply built in the Ready branch.
EchoReply(m, message_id) ==
    [source |-> m.destination,
     destination |-> m.source,
     body |-> [id |-> Some(message_id), in_reply_to |-> m.body.id,
               payload |-> [type |-> "echo_ok", echo |-> m.body.payload.echo]]]

\* Variant of AddressedToSelf: the destination is not looked at.
AddressedToSelf_Unchecked(m, self_id) == TRUE

\* The destination test of the Ready branch.
AddressedToSelf(m, self_id) == m.destination = self_id

(* ----------------------------------------------------------------- state *)

VARIABLES
    pc,         \* position of main: "running", "done" (Ok(())) or "failed" (Err)
    state,      \* EchoNode.state
    output,     \* the replies written to stdout, in order
    stdout,     \* the JSON lines those replies were written as
    message,    \* the Message most recently handed to EchoNode::next
    result,     \* outcome of the latest loop iteration
    remaining,  \* records not yet read from stdin
    nread       \* records read from stdin so far

vars == <<pc, state, output, stdout, message, result, remaining, nread>>

\* Outcomes of writing one reply: both writes succeed, serde_json::to_writer
\* fails, or the write of the newline fails.
WriteOutcomes == {"ok", "encode_error", "newline_error"}

Init ==
    /\ pc = "running"
    /\ state = Initializing
    /\ output = <<>>
    /\ stdout = <<>>
    /\ message = NoMessage
    /\ result = "none"
    /\ remaining \in 0..MaxInputs
    /\ nread = 0

(* ------------------------------------------------------- EchoNode::next *)

\* Variant of Fail: the error is recorded and the loop goes on.
Fail_Swallowed(err) ==
    /\ result' = err
    /\ pc' = "running"

\* An error return of next: main propagates it and the process ends.
Fail(err) ==
    /\ result' = err
    /\ pc' = "failed"

\* Ok(()) return of next: main goes on to the next record.
Succeed ==
    /\ result' = "ok"
    /\ pc' = "running"

\* Variant of Write: the reply is put in front of the earlier ones.
Write_InFront(reply, w) ==
    /\ output' = IF w = "ok" THEN <<reply>> \o output ELSE output
    /\ stdout' = IF w = "ok" THEN <<EncodeMessage(reply)>> \o stdout ELSE stdout

\* Write of one reply: to_writer, then the newline.  The reply is on stdout
\* when both writes succeed.
Write(reply, w) ==
    /\ output' = IF w = "ok" THEN Append(output, reply) ELSE output
    /\ stdout' = IF w = "ok" THEN Append(stdout, EncodeMessage(reply)) ELSE stdout

\* Write of one reply, each write followed by ?: a failed write ends next.
Emit(reply, w) ==
    /\ Write(reply, w)
    /\ IF w = "ok" THEN Succeed ELSE Fail(w)

\* Variant of InitializingInit: an init addressed to another id than the one
\* it assigns is refused as misrouted.
InitializingInit_DestinationChecked(m, w) ==
    /\ state.tag = "Initializing"
    /\ m.body.payload.type = "init"
    /\ IF m.destination = m.body.payload.node_id
       THEN state' = Ready(m.body.payload.node_id, FirstMessageId) /\ Emit(InitReply(m), w)
       ELSE UNCHANGED <<state, output, stdout>> /\ Fail("misrouted")

\* Initializing, Payload::Init: become Ready, then write init_ok.
InitializingInit(m, w) ==
    /\ state.tag = "Initializing"
    /\ m.body.payload.type = "init"
    /\ state' = Ready(m.body.payload.node_id, FirstMessageId)
    /\ Emit(InitReply(m), w)

\* Variant of InitializingEcho: an echo before init is answered.
InitializingEcho_Answered(m) ==
    /\ state.tag = "Initializing"
    /\ m.body.payload.type = "echo"
    /\ UNCHANGED state
    /\ Emit(EchoReply(m, FirstMessageId), "ok")

\* Initializing, Payload::Echo: ignored.
InitializingEcho(m) ==
    /\ state.tag = "Initializing"
    /\ m.body.payload.type = "echo"
    /\ UNCHANGED <<state, output, stdout>>
    /\ Succeed

\* Variant of InitializingOther: a stray reply before init is an error.
InitializingOther_Rejected(m) ==
    /\ state.tag = "Initializing"
    /\ m.body.payload.type \in {"init_ok", "echo_ok"}
    /\ UNCHANGED <<state, output, stdout>>
    /\ Fail("unexpected_init")

\* Initializing, any other payload: ignored.
InitializingOther(m) ==
    /\ state.tag = "Initializing"
    /\ m.body.payload.type \in {"init_ok", "echo_ok"}
    /\ UNCHANGED <<state, output, stdout>>
    /\ Succeed

\* Ready, addressed to this node, Payload::Echo: write echo_ok, then advance
\* the counter.
ReadyEcho(m, w, o) ==
    /\ state.tag = "Ready"
    /\ AddressedToSelf(m, state.self_id)
    /\ m.body.payload.type = "echo"
    /\ Write(EchoReply(m, state.message_id), w)
    /\ IF w # "ok"
       THEN Fail(w) /\ state' = state
       ELSE IF Overflows(state.message_id) /\ o = "panic"
            THEN Fail("overflow_panic") /\ state' = state
            ELSE Succeed /\ state' = Ready(state.self_id, NextMessageId(state.message_id))

\* Variant of ReadyInit: the payload is looked at before the destination.
ReadyInit_AnyDestination(m) ==
    /\ state.tag = "Ready"
    /\ m.body.payload.type = "init"
    /\ UNCHANGED <<state, output, stdout>>
    /\ Fail("unexpected_init")

\* Variant of ReadyInit: a second init is ignored.
ReadyInit_Ignored(m) ==
    /\ state.tag = "Ready"
    /\ AddressedToSelf(m, state.self_id)
    /\ m.body.payload.type = "init"
    /\ UNCHANGED <<state, output, stdout>>
    /\ Succeed

\* Variant of ReadyInit: a second init initialises the node again.
ReadyInit_Reinitialised(m) ==
    /\ state.tag = "Ready"
    /\ AddressedToSelf(m, state.self_id)
    /\ m.body.payload.type = "init"
    /\ state' = Ready(m.body.payload.node_id, FirstMessageId)
    /\ Emit(InitReply(m), "ok")

\* Ready, addressed to this node, Payload::Init: bail.
ReadyInit(m) ==
    /\ state.tag = "Ready"
    /\ AddressedToSelf(m, state.self_id)
    /\ m.body.payload.type = "init"
    /\ UNCHANGED <<state, output, stdout>>
    /\ Fail("unexpected_init")

\* Ready, addressed to this node, any other payload: ignored.
ReadyOther(m) ==
    /\ state.tag = "Ready"
    /\ AddressedToSelf(m, state.self_id)
    /\ m.body.payload.type \in {"init_ok", "echo_ok"}
    /\ UNCHANGED <<state, output, stdout>>
    /\ Succeed

\* Ready, addressed to another node: bail.
ReadyMisrouted(m) ==
    /\ state.tag = "Ready"
    /\ ~AddressedToSelf(m, state.self_id)
    /\ UNCHANGED <<state, output, stdout>>
    /\ Fail("misrouted")

(* ------------------------------------------------------------------ main *)

\* One iteration of the for loop whose record decodes: the iterator yields
\* Some(Ok(input)) and the record is handed to node.next.
Take(m) ==
    /\ pc = "running"
    /\ remaining > 0
    /\ remaining' = remaining - 1
    /\ nread' = nread + 1
    /\ message' = m

HandleInitializingInit == \E m \in Message, w \in WriteOutcomes : Take(m) /\ InitializingInit(m, w)

HandleInitializingEcho == \E m \in Message : Take(m) /\ InitializingEcho(m)

HandleInitializingOther == \E m \in Message : Take(m) /\ InitializingOther(m)

HandleReadyEcho ==
    \E m \in Message, w \in WriteOutcomes, o \in OverflowOutcomes : Take(m) /\ ReadyEcho(m, w, o)

HandleReadyInit == \E m \in Message : Take(m) /\ ReadyInit(m)

HandleReadyOther == \E m \in Message : Take(m) /\ ReadyOther(m)

HandleReadyMisrouted == \E m \in Message : Take(m) /\ ReadyMisrouted(m)

\* One iteration whose record does not decode: the iterator yields
\* Some(Err(_)) and main returns the error.
DecodeError ==
    /\ pc = "running"
    /\ remaining > 0
    /\ remaining' = remaining - 1
    /\ nread' = nread + 1
    /\ UNCHANGED <<state, output, stdout, message>>
    /\ Fail("decode_error")

\* Variant of EndOfInput: the loop may end before the input does.
EndOfInput_Early ==
    /\ pc = "running"
    /\ pc' = "done"
    /\ result' = "eof"
    /\ UNCHANGED <<state, output, stdout, message, remaining, nread>>

\* The iterator yields None at end of input: main returns Ok(()).
EndOfInput ==
    /\ pc = "running"
    /\ remaining = 0
    /\ pc' = "done"
    /\ result' = "eof"
    /\ UNCHANGED <<state, output, stdout, message, remaining, nread>>

Next ==
    \/ HandleInitializingInit
    \/ HandleInitializingEcho
    \/ HandleInitializingOther
    \/ HandleReadyEcho
    \/ HandleReadyInit
    \/ HandleReadyOther
    \/ HandleReadyMisrouted
    \/ DecodeError
    \/ EndOfInput

Spec == Init /\ [][Next]_vars

\* Largest number of records of the inputs whose runs are followed to their
\* end.
MaxLiveInputs == MaxInputs - 1

InitLive ==
    /\ pc = "running"
    /\ state = Initializing
    /\ output = <<>>
    /\ stdout = <<>>
    /\ message = NoMessage
    /\ result = "none"
    /\ remaining \in 0..MaxLiveInputs
    /\ nread = 0

\* The loop never stalls: a read returns a record or the end of the (finite)
\* input, and every call of next returns.
SpecLive == InitLive /\ [][Next]_vars /\ WF_vars(Next)

(* ------------------------------------------- runs long enough to overflow *)

\* Enough records for the counter to pass usize::MAX: one init, then one echo
\* for each id from 1 to usize::MAX, then one more echo.
MaxOverflowInputs == UsizeMax + 2

\* The records of a long run: the harness's init for node n1 and one echo
\* request, each addressed to n1 or to n2, and a stray echo_ok.
OverflowMessage ==
    {m \in Message :
        /\ m.body.id = None
        /\ m.body.payload \in {[type |-> "init", node_id |-> "n1", node_ids |-> <<"n1">>],
                               [type |-> "echo", echo |-> "a"],
                               [type |-> "echo_ok", echo |-> "a"]}}

InitOverflow ==
    /\ pc = "running"
    /\ state = Initializing
    /\ output = <<>>
    /\ stdout = <<>>
    /\ message = NoMessage
    /\ result = "none"
    /\ remaining \in 0..MaxOverflowInputs
    /\ nread = 0

LongInitializingInit ==
    \E m \in OverflowMessage, w \in WriteOutcomes : Take(m) /\ InitializingInit(m, w)

LongInitializingEcho == \E m \in OverflowMessage : Take(m) /\ InitializingEcho(m)

LongInitializingOther == \E m \in OverflowMessage : Take(m) /\ InitializingOther(m)

LongReadyEcho ==
    \E m \in OverflowMessage, w \in WriteOutcomes, o \in OverflowOutcomes :
        Take(m) /\ ReadyEcho(m, w, o)

LongReadyInit == \E m \in OverflowMessage : Take(m) /\ ReadyInit(m)

LongReadyOther == \E m \in OverflowMessage : Take(m) /\ ReadyOther(m)

LongReadyMisrouted == \E m \in OverflowMessage : Take(m) /\ ReadyMisrouted(m)

NextOverflow ==
    \/ LongInitializingInit
    \/ LongInitializingEcho
    \/ LongInitializingOther
    \/ LongReadyEcho
    \/ LongReadyInit
    \/ LongReadyOther
    \/ LongReadyMisrouted
    \/ DecodeError
    \/ EndOfInput

\* The same node and loop, fed up to MaxOverflowInputs records.
SpecOverflow == InitOverflow /\ [][NextOverflow]_vars

(* ------------------------------------------------------------ type check *)

TypeOK ==
    /\ pc \in {"running", "done", "failed"}
    /\ state.tag \in {"Initializing", "Ready"}
    /\ remaining \in 0..MaxOverflowInputs
    /\ nread \in 0..MaxOverflowInputs
    /\ Len(output) <= nread

(* ---------------------------------------------------------------- claims *)

\* The step is one call of node.next; message' is the message it was given.
Handled == nread' = nread + 1 /\ result' # "decode_error"

\* The step appends exactly one reply to the output.
EmitsOne == Len(output') = Len(output) + 1 /\ SubSeq(output', 1, Len(output)) = output

\* The reply appended by the step.
Emitted == output'[Len(output')]

\* The echo_ok replies of the output, in emission order.
EchoOks == SelectSeq(output, LAMBDA r : r.body.payload.type = "echo_ok")

\* The last reply of the output.
LastReply == output[Len(output)]

\* C1: an init handled while Initializing moves the node to Ready with
\* self_id = node_id and message_id = 1, and the one reply it writes is
\* init_ok with id 0 and in_reply_to = the init's id.  (When the write itself
\* fails nothing is emitted and the step fails with the write error.)
C1_InitHandshake ==
    [][(Handled /\ state.tag = "Initializing" /\ message'.body.payload.type = "init") =>
          /\ state'.tag = "Ready"
          /\ state'.self_id = message'.body.payload.node_id
          /\ state'.message_id = 1
          /\ result' \in WriteOutcomes
          /\ IF result' = "ok"
             THEN /\ EmitsOne
                  /\ Emitted.body.payload = [type |-> "init_ok"]
                  /\ Emitted.body.id = <<0>>
                  /\ Emitted.body.in_reply_to = message'.body.id
             ELSE output' = output]_vars

C1_Witness ==
    /\ message.body.payload.type = "init"
    /\ message.body.id = <<1>>
    /\ result = "ok"
    /\ state.tag = "Ready"
    /\ Len(output) = 1
    /\ LastReply.body.payload.type = "init_ok"

\* C2: an echo handled while Ready and addressed to self_id writes exactly one
\* echo_ok reply whose echo field equals the request's echo field.  (When the
\* write itself fails nothing is emitted; when the counter overflows with a
\* panic the reply has already been written.)
C2_EchoIdentical ==
    [][(/\ Handled
        /\ state.tag = "Ready"
        /\ message'.body.payload.type = "echo"
        /\ message'.destination = state.self_id) =>
          /\ result' \in WriteOutcomes \cup {"overflow_panic"}
          /\ IF result' \in {"ok", "overflow_panic"}
             THEN /\ EmitsOne
                  /\ Emitted.body.payload = [type |-> "echo_ok", echo |-> message'.body.payload.echo]
             ELSE output' = output]_vars

C2_Witness ==
    /\ message.body.payload.type = "echo"
    /\ result = "ok"
    /\ Len(output) >= 2
    /\ LastReply.body.payload = [type |-> "echo_ok", echo |-> "b"]

\* C3: the i-th echo_ok reply of the output has id i, whatever was handled
\* without a reply in between.
C3_EchoIdsCountUp == \A i \in 1..Len(EchoOks) : EchoOks[i].body.id = <<i>>

C3_Witness ==
    /\ Len(EchoOks) = 2
    /\ EchoOks[2].body.id = <<2>>
    /\ message.body.payload.type = "echo"
    /\ result = "ok"
    /\ nread > Len(output)

\* C4: the reply a step writes carries in_reply_to = the id of the message the
\* step handled, None included.
C4_InReplyTo ==
    [][Len(output') > Len(output) =>
          /\ Handled
          /\ EmitsOne
          /\ Emitted.body.in_reply_to = message'.body.id]_vars

C4_Witness ==
    /\ Len(output) >= 2
    /\ result = "ok"
    /\ message.body.payload.type = "echo"
    /\ message.body.id = None
    /\ LastReply.body.in_reply_to = None
    /\ output[1].body.in_reply_to # None

\* C5: the reply a step writes has source = the handled message's destination
\* and destination = the handled message's source.
C5_Swapped ==
    [][Len(output') > Len(output) =>
          /\ Handled
          /\ EmitsOne
          /\ Emitted.source = message'.destination
          /\ Emitted.destination = message'.source]_vars

C5_Witness ==
    /\ Len(output) >= 2
    /\ result = "ok"
    /\ message.body.payload.type = "echo"
    /\ LastReply.source = message.destination
    /\ LastReply.destination = message.source
    /\ LastReply.source # LastReply.destination

\* C6: an echo handled while Initializing writes nothing, returns Ok and leaves
\* the node Initializing.
C6_EchoBeforeInit ==
    [][(Handled /\ state.tag = "Initializing" /\ message'.body.payload.type = "echo") =>
          /\ output' = output
          /\ result' = "ok"
          /\ pc' = "running"
          /\ state' = Initializing]_vars

C6_Witness ==
    /\ message.body.payload.type = "echo"
    /\ state = Initializing
    /\ result = "ok"
    /\ nread >= 1
    /\ output = <<>>

\* C7: a message of any payload handled while Ready with destination # self_id
\* fails with the misrouted-message error, writes nothing and leaves the state
\* as it was.
C7_Misrouted ==
    [][(Handled /\ state.tag = "Ready" /\ message'.destination # state.self_id) =>
          /\ result' = "misrouted"
          /\ pc' = "failed"
          /\ output' = output
          /\ state' = state]_vars

C7_Witness ==
    /\ state.tag = "Ready"
    /\ message.destination # state.self_id
    /\ message.body.payload.type = "echo"
    /\ result = "misrouted"
    /\ pc = "failed"

\* C8: an init handled while Ready fails the step with a protocol error, writes
\* nothing and leaves the state as it was.
C8_InitWhileReady ==
    [][(Handled /\ state.tag = "Ready" /\ message'.body.payload.type = "init") =>
          /\ result' \in {"unexpected_init", "misrouted"}
          /\ pc' = "failed"
          /\ output' = output
          /\ state' = state]_vars

C8_Witness ==
    /\ state.tag = "Ready"
    /\ message.body.payload.type = "init"
    /\ message.destination = state.self_id
    /\ nread >= 2
    /\ result = "unexpected_init"
    /\ pc = "failed"

\* C9: an init_ok or echo_ok handled while Initializing, or while Ready and
\* addressed to self_id, writes nothing, returns Ok and leaves the state as it
\* was.
C9_RepliesIgnored ==
    [][(/\ Handled
        /\ message'.body.payload.type \in {"init_ok", "echo_ok"}
        /\ (state.tag = "Ready" => message'.destination = state.self_id)) =>
          /\ output' = output
          /\ result' = "ok"
          /\ pc' = "running"
          /\ state' = state]_vars

C9_Witness ==
    /\ state.tag = "Ready"
    /\ message.body.payload.type \in {"init_ok", "echo_ok"}
    /\ message.destination = state.self_id
    /\ result = "ok"
    /\ Len(output) = 1
    /\ nread >= 3

\* C10: the node starts Initializing; once Ready it stays Ready and keeps its
\* self_id, so Initializing -> Ready happens at most once.
C10_Lifecycle ==
    /\ state = Initializing
    /\ [][state.tag = "Ready" => (state'.tag = "Ready" /\ state'.self_id = state.self_id)]_vars

C10_Witness ==
    /\ state.tag = "Ready"
    /\ state.message_id = 3
    /\ Len(output) = 3
    /\ nread = 4

\* The id carried by a reply.
IdOf(r) == r.body.id[1]

\* C11: no two replies carry the same id, and every reply's id is greater than
\* the id of every earlier reply.
C11_IdsUniqueIncreasing ==
    \A i \in 1..Len(output) : \A j \in 1..Len(output) :
        i < j => IdOf(output[i]) < IdOf(output[j])

\* The keys of a JSON object.
Keys(obj) == {obj.members[k][1] : k \in 1..Len(obj.members)}

\* The value of the first member of a JSON object with the given key.
ValueOf(obj, key) ==
    obj.members[CHOOSE k \in 1..Len(obj.members) : obj.members[k][1] = key][2]

\* The payload fields a reply's variant has.
PayloadFields(r) == IF r.body.payload.type = "echo_ok" THEN {"echo"} ELSE {}

\* C20: every line the node writes has a body that is one flat object: the
\* type tag, the payload's fields, and the msg_id and in_reply_to keys, both
\* present also when their value is null.
C20_FlatBody ==
    /\ Len(stdout) = Len(output)
    /\ \A i \in 1..Len(stdout) :
          LET r == output[i]
              line == stdout[i]
          IN /\ line.t = "obj"
             /\ "body" \in Keys(line)
             /\ LET b == ValueOf(line, "body")
                IN /\ b.t = "obj"
                   /\ Keys(b) = {"type", "msg_id", "in_reply_to"} \cup PayloadFields(r)
                   /\ Len(b.members) = Cardinality(Keys(b))
                   /\ \A k \in 1..Len(b.members) : b.members[k][2].t \in {"null", "num", "str"}
                   /\ ValueOf(b, "type") = [t |-> "str", s |-> r.body.payload.type]
                   /\ ValueOf(b, "msg_id").t = (IF r.body.id = None THEN "null" ELSE "num")
                   /\ ValueOf(b, "in_reply_to").t =
                          (IF r.body.in_reply_to = None THEN "null" ELSE "num")
                   /\ \A f \in PayloadFields(r) :
                          ValueOf(b, f) = [t |-> "str", s |-> r.body.payload[f]]

C20_Witness ==
    /\ Len(stdout) >= 2
    /\ ValueOf(ValueOf(stdout[1], "body"), "in_reply_to").t = "num"
    /\ ValueOf(ValueOf(stdout[2], "body"), "in_reply_to").t = "null"
    /\ "echo" \in Keys(ValueOf(stdout[2], "body"))

\* The results with which an iteration of the loop fails.
ErrorResults ==
    {"decode_error", "misrouted", "unexpected_init", "encode_error", "newline_error",
     "overflow_panic"}

\* C12: every step reads at most one record, changes the state at most once
\* and writes at most one reply, after the earlier ones; the reply is written
\* in the step that read the record it answers, before the next record is
\* read, so replies come out in the order of the records that triggered them.
C12_OneAtATime ==
    [][/\ nread' \in {nread, nread + 1}
       /\ remaining' = remaining - (nread' - nread)
       /\ output' = output \/ EmitsOne
       /\ output' # output =>
             /\ Handled
             /\ Emitted.destination = message'.source
             /\ Emitted.body.in_reply_to = message'.body.id
             /\ message'.body.payload.type \in {"init", "echo"}
       /\ state' # state =>
             /\ Handled
             /\ \/ state = Initializing /\ state'.tag = "Ready"
                \/ /\ state.tag = "Ready"
                   /\ state' = [state EXCEPT !.message_id = state'.message_id]]_vars

C12_Witness ==
    /\ Len(output) = 3
    /\ nread = 4
    /\ output[1].body.payload.type = "init_ok"
    /\ output[2].body.payload = [type |-> "echo_ok", echo |-> "a"]
    /\ output[3].body.payload = [type |-> "echo_ok", echo |-> "b"]
    /\ message.body.payload = [type |-> "echo", echo |-> "b"]

\* C13: a step that ends in an error ends the run as failed, and a failed run
\* takes no further step: no record is read, nothing is written and the node
\* state does not change.
C13_ErrorsTerminal ==
    [][/\ result' \in ErrorResults => pc' = "failed"
       /\ pc = "failed" =>
             /\ pc' = "failed"
             /\ nread' = nread
             /\ output' = output
             /\ state' = state]_vars

C13_Witness ==
    /\ pc = "failed"
    /\ result = "encode_error"
    /\ remaining > 0
    /\ nread >= 2

\* C14: the run always ends; it ends cleanly only at the end of the input,
\* with every record read, and ends failed only with an error.
C14_CleanExit ==
    /\ [](pc = "done" => (remaining = 0 /\ result = "eof"))
    /\ [](pc = "failed" => result \in ErrorResults)
    /\ <>(pc \in {"done", "failed"})

C14_Witness ==
    /\ pc = "done"
    /\ remaining = 0
    /\ nread = MaxLiveInputs
    /\ Len(output) = MaxLiveInputs - 1

\* C15: while Ready, an init addressed to another node fails as misrouted,
\* and the unexpected-init error is raised only for an init addressed to
\* self_id.
C15_DestinationFirst ==
    [][Handled =>
          /\ (/\ state.tag = "Ready"
              /\ message'.body.payload.type = "init"
              /\ message'.destination # state.self_id) => result' = "misrouted"
          /\ result' = "unexpected_init" =>
                /\ state.tag = "Ready"
                /\ message'.body.payload.type = "init"
                /\ message'.destination = state.self_id]_vars

C15_Witness ==
    /\ state.tag = "Ready"
    /\ message.body.payload.type = "init"
    /\ message.destination # state.self_id
    /\ result = "misrouted"

\* C16: the output holds at most one init_ok, as its first reply, every
\* echo_ok comes after it, and no echo_ok has id 0.
C16_InitOkFirst ==
    \A i \in 1..Len(output) :
        /\ output[i].body.payload.type = "init_ok" <=> i = 1
        /\ output[i].body.payload.type = "echo_ok" => output[i].body.id # <<0>>

\* C17: a step that fails leaves the node state as it was before the step.
C17_FailedStepKeepsState ==
    [][(Handled /\ result' \in ErrorResults) => state' = state]_vars

\* C18 as stated: every reply's source is the self_id the node holds after
\* the step.
C18_SourceIsSelfId ==
    [][output' # output => (EmitsOne /\ Emitted.source = state'.self_id)]_vars

\* C18, amended: every reply's source is the destination of the message it
\* answers; for an echo_ok that is the node's self_id, for an init_ok it is
\* the self_id exactly when the init was addressed to the node_id it assigns.
C18_SourceIsDestination ==
    [][output' # output =>
          /\ EmitsOne
          /\ Emitted.source = message'.destination
          /\ Emitted.body.payload.type = "echo_ok" => Emitted.source = state'.self_id
          /\ Emitted.body.payload.type = "init_ok" =>
                (Emitted.source = state'.self_id
                    <=> message'.destination = message'.body.payload.node_id)]_vars

C18_Witness ==
    /\ Len(output) >= 2
    /\ state.tag = "Ready"
    /\ output[1].body.payload.type = "init_ok"
    /\ output[1].source # state.self_id
    /\ output[2].body.payload.type = "echo_ok"
    /\ output[2].source = state.self_id

\* C19: a step taken while Initializing raises no protocol error, whatever
\* the payload and the destination, and only an init changes the state or
\* writes a reply.
C19_NoProtocolErrorBeforeInit ==
    [][(Handled /\ state = Initializing) =>
          /\ result' \notin {"misrouted", "unexpected_init"}
          /\ message'.body.payload.type # "init" =>
                /\ result' = "ok"
                /\ state' = state
                /\ output' = output
          /\ message'.body.payload.type = "init" =>
                /\ result' \in WriteOutcomes
                /\ state'.tag = "Ready"]_vars

C19_Witness ==
    /\ nread = 2
    /\ state.tag = "Ready"
    /\ message.body.payload.type = "init"
    /\ message.destination # message.body.payload.node_id
    /\ result = "ok"
    /\ Len(output) = 1

====
